---- MODULE Spec2Model ----
(***************************************************************************)
(* The scoring engine of NLPurify: nlpurify.scoring.baseclass              *)
(* (BaseLogicalOperator), nlpurify.scoring.fuzzy.logical (LogicalFuzzy),   *)
(* nlpurify.scoring.regexp.logical (LogicalRegexp) and the wrapper         *)
(* fuzzy_score of nlpurify.fuzzy.wrapper.                                  *)
(*                                                                         *)
(* A string is a sequence of one-character strings.  An object is a record *)
(* [cls, has, string, references, method]; `has` is the set of attribute   *)
(* names that have been assigned (reading another one is Python's          *)
(* AttributeError).                                                        *)
(*                                                                         *)
(* Two specifications:                                                     *)
(*   SpecNew  the constructors LogicalFuzzy(...) and LogicalRegexp(...),   *)
(*            as the classes of the repository run them;                   *)
(*   Spec     the methods scores() and evaluate() on a receiver whose      *)
(*            attributes string, references and method are assigned (the   *)
(*            methods read them from `self`, whoever assigned them).       *)
(***************************************************************************)
EXTENDS Integers, Sequences, FiniteSets, TLC

\* ------------------------------------------------------------------ bounds
\* The largest number of references of a receiver.
MaxRefs == 2

\* Longest input text of the text functions.
MaxText == 4

\* ----------------------------------------------------------------- domains
\* Subject strings (self.string).
Subjects == { <<>>, <<"b">>, <<"a", "b">> }

\* References of a LogicalFuzzy: plain words.
Words == { <<"a">>, <<"a", "b">> }

\* References of a LogicalRegexp: regular expressions.  <<"(">> is malformed
\* (an unterminated group), <<".">> is the wildcard, <<>> matches the empty
\* string.
Patterns == { <<>>, <<"a">>, <<"b">>, <<".">>, <<"(">> }

\* Method names given to LogicalFuzzy: the three the wrapper knows and one it
\* does not.
Methods == { "ratio", "partial_ratio", "token_sort_ratio", "jaro" }

\* What a call of a fuzzywuzzy function can do: return a score or raise.
\* A negative outcome stands for the function raising.
PrimScores == { 0, 100 }
PrimOutcomes == PrimScores \cup { -1 }
PrimRaises(v) == v < 0

\* Arguments given to evaluate().
Thresholds == { -1, 0, 50, 100 }

SysLogic == "__import__('os').system('id') or all"
Logics == { "all", "any", "xor", "len", SysLogic }

SysOp == ">= 0 and __import__('os').system('id') and 0 >="
Comparators == { ">", ">=", "<", "<=", "==", "!=" }
Operators == Comparators \cup { "=>", "+", SysOp }

SeqsUpTo(S, n) == UNION { [1..k -> S] : k \in 0..n }

\* ------------------------------------------------------------------- state
VARIABLES
    self,    \* the object: the receiver of the methods, or what a constructor built
    memo,    \* the fuzzywuzzy functions, as far as they have been called
    call,    \* the last call made by the caller and its arguments
    calls,   \* the calls the last call made to fuzzywuzzy and to re
    out,     \* how the last call ended
    first    \* how the caller's first scores() ended (history)

vars == <<self, memo, call, calls, out, first>>

AllAttrs == { "string", "references", "method" }

NoInstance == [cls |-> "none", has |-> {}, string |-> <<>>,
               references |-> <<>>, method |-> ""]

Instance(cls, string, references, method) ==
    [cls |-> cls, has |-> AllAttrs, string |-> string,
     references |-> references, method |-> method]

NoCall == [op |-> "none", thresh |-> 0, logic |-> "", operator |-> "",
           string |-> <<>>, references |-> <<>>, method |-> ""]

\* An outcome: kind is "return" or "raise"; a returned value is a list, a
\* bool or an int (type); a raised exception has a class (exc), the pattern
\* it carries (re.error.pattern) and the attributes it identifies (names).
\* ran: text of an argument has run a call of its own (os.system).
Outcome(kind, type) ==
    [kind |-> kind, type |-> type, list |-> <<>>, bool |-> FALSE, int |-> 0,
     exc |-> "", pattern |-> <<>>, names |-> {}, ran |-> FALSE]

NoOutcome == Outcome("none", "none")
ReturnList(l) == [Outcome("return", "list") EXCEPT !.list = l]
ReturnBool(b) == [Outcome("return", "bool") EXCEPT !.bool = b]
ReturnInt(n) == [Outcome("return", "int") EXCEPT !.int = n]
Raise(exc) == [Outcome("raise", "none") EXCEPT !.exc = exc]

\* A call made to a library function: fn(a, b).
LibCall(fn, a, b) == [fn |-> fn, a |-> a, b |-> b]

\* The result of running a method body: its outcome and the library calls made.
Run(o, cs) == [out |-> o, calls |-> cs]

\* ---------------------------------------------------------------------- re
\* re.compile: the pattern language is literals, the wildcard "." and the
\* group opener "(", which nothing closes: such a pattern is malformed.
re_malformed(pattern) == \E j \in 1..Len(pattern) : pattern[j] = "("

\* re.error carries msg, pattern and pos (the position inside the pattern).
re_error(pattern) ==
    [Raise("re.error") EXCEPT !.pattern = pattern,
                              !.names = {"msg", "pattern", "pos"}]

\* Whether pattern matches string at offset i (0-based), as sre matches a
\* sequence of literals and wildcards.
re_match_at(pattern, string, i) ==
    /\ i + Len(pattern) <= Len(string)
    /\ \A j \in 1..Len(pattern) :
          pattern[j] = "." \/ pattern[j] = string[i + j]

\* re.findall's scan from offset i: the non-overlapping matches, left to right;
\* after an empty match the scan moves on by one character.
RECURSIVE re_scan(_, _, _)
re_scan(pattern, string, i) ==
    IF i > Len(string) THEN <<>>
    ELSE IF re_match_at(pattern, string, i)
         THEN <<SubSeq(string, i + 1, i + Len(pattern))>>
              \o re_scan(pattern, string,
                         IF Len(pattern) = 0 THEN i + 1 ELSE i + Len(pattern))
         ELSE re_scan(pattern, string, i + 1)

\* re.findall(pattern, string): the list of matches, or re.error.
re_findall(pattern, string) ==
    IF re_malformed(pattern)
    THEN [ok |-> FALSE, matches |-> <<>>]
    ELSE [ok |-> TRUE, matches |-> re_scan(pattern, string, 0)]

\* ------------------------------------------------- LogicalRegexp.scores
\* Mutant of LogicalRegexp_found: a pattern seen before is skipped.
RECURSIVE LogicalRegexp_found_dedup(_, _, _, _)
LogicalRegexp_found_dedup(obj, i, found, cs) ==
    IF i > Len(obj.references) THEN [ok |-> TRUE, found |-> found, calls |-> cs,
                                     bad |-> <<>>]
    ELSE IF \E j \in 1..(i - 1) : obj.references[j] = obj.references[i]
    THEN LogicalRegexp_found_dedup(obj, i + 1, found, cs)
    ELSE LET pattern == obj.references[i]
             r == re_findall(pattern, obj.string)
             cs2 == Append(cs, LibCall("re.findall", pattern, obj.string))
         IN IF r.ok
            THEN LogicalRegexp_found_dedup(obj, i + 1, Append(found, r.matches),
                                           cs2)
            ELSE [ok |-> FALSE, found |-> found, calls |-> cs2, bad |-> pattern]

\* found = [re.findall(pattern, self.string) for pattern in self.references]
\* evaluated reference by reference from index i, `found` collected so far.
RECURSIVE LogicalRegexp_found(_, _, _, _)
LogicalRegexp_found(obj, i, found, cs) ==
    IF i > Len(obj.references) THEN [ok |-> TRUE, found |-> found, calls |-> cs,
                                     bad |-> <<>>]
    ELSE LET pattern == obj.references[i]
             r == re_findall(pattern, obj.string)
             cs2 == Append(cs, LibCall("re.findall", pattern, obj.string))
         IN IF r.ok
            THEN LogicalRegexp_found(obj, i + 1, Append(found, r.matches), cs2)
            ELSE [ok |-> FALSE, found |-> found, calls |-> cs2, bad |-> pattern]

\* Mutant of regexp_score: the first match decides, and an empty match is
\* false.
regexp_score_first(li) == IF Len(li) > 0 /\ Len(li[1]) > 0 THEN 100 ELSE 0

\* 100 if li else 0: a list is true when it is not empty.
regexp_score(li) == IF Len(li) > 0 THEN 100 ELSE 0

\* return [ 100 if li else 0 for li in found ]
LogicalRegexp_scores(obj) ==
    IF ~ ({"string", "references"} \subseteq obj.has)
    THEN Run(Raise("AttributeError"), <<>>)
    ELSE LET f == LogicalRegexp_found(obj, 1, <<>>, <<>>)
         IN IF f.ok
            THEN Run(ReturnList([k \in 1..Len(f.found) |->
                                   regexp_score(f.found[k])]),
                     f.calls)
            ELSE Run(re_error(f.bad), f.calls)

\* --------------------------------------------------------------- fuzzywuzzy
\* fuzz.ratio, fuzz.partial_ratio and fuzz.token_sort_ratio are functions of
\* an external library.  A table holds what they answer: a set of entries
\* [fn, a, b, v], one per call fn(a, b) made so far, so that the same call
\* always has the same answer.
Sampled(tbl, fn, a, b) == \E e \in tbl : e.fn = fn /\ e.a = a /\ e.b = b

fuzz(tbl, fn, a, b) ==
    (CHOOSE e \in tbl : e.fn = fn /\ e.a = a /\ e.b = b).v

\* -------------------------------------------------------------- fuzzy_score
\* The dictionary of the wrapper and its .get(method): None for another name.
wrapper_get(method) ==
    CASE method = "ratio" -> "fuzz.ratio"
      [] method = "partial_ratio" -> "fuzz.partial_ratio"
      [] method = "token_sort_ratio" -> "fuzz.token_sort_ratio"
      [] OTHER -> "None"

\* Mutant of fuzzy_score_args: method(string, reference).
fuzzy_score_args_swapped(string, reference) == [a |-> string, b |-> reference]

\* The arguments the wrapper hands to the fuzzywuzzy function.
fuzzy_score_args(string, reference) == [a |-> reference, b |-> string]

\* fuzzy_score(string, reference, method): return method(reference, string);
\* calling None raises TypeError.
fuzzy_score(tbl, string, reference, method) ==
    LET fn == wrapper_get(method)
        args == fuzzy_score_args(string, reference)
    IN IF fn = "None"
       THEN [kind |-> "raise", exc |-> "TypeError", v |-> 0, calls |-> <<>>]
       ELSE LET v == fuzz(tbl, fn, args.a, args.b)
                c == <<LibCall(fn, args.a, args.b)>>
            IN IF PrimRaises(v)
               THEN [kind |-> "raise", exc |-> "PrimitiveFailure", v |-> 0,
                     calls |-> c]
               ELSE [kind |-> "return", exc |-> "", v |-> v, calls |-> c]

\* Mutant of LogicalFuzzy_loop: a failing reference ends the loop and the
\* scores collected so far are returned.
RECURSIVE LogicalFuzzy_loop_partial(_, _, _, _, _)
LogicalFuzzy_loop_partial(tbl, obj, i, acc, cs) ==
    IF i > Len(obj.references) THEN Run(ReturnList(acc), cs)
    ELSE IF ~ ({"string", "method"} \subseteq obj.has)
    THEN Run(Raise("AttributeError"), cs)
    ELSE LET r == fuzzy_score(tbl, obj.string, obj.references[i], obj.method)
         IN IF r.kind = "raise"
            THEN Run(ReturnList(acc), cs \o r.calls)
            ELSE LogicalFuzzy_loop_partial(tbl, obj, i + 1, Append(acc, r.v),
                                           cs \o r.calls)

\* ---------------------------------------------------- LogicalFuzzy.scores
\* [fuzzy_score(self.string, reference, self.method)
\*  for reference in self.references], from index i on, `acc` collected so far.
RECURSIVE LogicalFuzzy_loop(_, _, _, _, _)
LogicalFuzzy_loop(tbl, obj, i, acc, cs) ==
    IF i > Len(obj.references) THEN Run(ReturnList(acc), cs)
    ELSE IF ~ ({"string", "method"} \subseteq obj.has)
    THEN Run(Raise("AttributeError"), cs)
    ELSE LET r == fuzzy_score(tbl, obj.string, obj.references[i], obj.method)
         IN IF r.kind = "raise"
            THEN Run(Raise(r.exc), cs \o r.calls)
            ELSE LogicalFuzzy_loop(tbl, obj, i + 1, Append(acc, r.v),
                                   cs \o r.calls)

LogicalFuzzy_scores(tbl, obj) ==
    IF "references" \notin obj.has
    THEN Run(Raise("AttributeError"), <<>>)
    ELSE LogicalFuzzy_loop(tbl, obj, 1, <<>>, <<>>)

\* self.scores(): the method of the receiver's class.
scores(tbl, obj) ==
    IF obj.cls = "LogicalFuzzy" THEN LogicalFuzzy_scores(tbl, obj)
    ELSE LogicalRegexp_scores(obj)

\* ----------------------------------------------- str() of an int, and back
DigitChar == <<"0", "1", "2", "3", "4", "5", "6", "7", "8", "9">>

RECURSIVE NatRepr(_)
NatRepr(n) ==
    IF n < 10 THEN <<DigitChar[n + 1]>>
    ELSE NatRepr(n \div 10) \o <<DigitChar[(n % 10) + 1]>>

\* format(n): the decimal text of an int.
IntRepr(n) == IF n < 0 THEN <<"-">> \o NatRepr(0 - n) ELSE NatRepr(n)

DigitVal(c) == CHOOSE d \in 0..9 : DigitChar[d + 1] = c

RECURSIVE ParseNat(_, _)
ParseNat(text, acc) ==
    IF text = <<>> THEN acc
    ELSE ParseNat(Tail(text), 10 * acc + DigitVal(Head(text)))

\* The int a decimal literal denotes.
ParseInt(text) ==
    IF text # <<>> /\ Head(text) = "-" THEN 0 - ParseNat(Tail(text), 0)
    ELSE ParseNat(text, 0)

\* --------------------------------------------- BaseLogicalOperator.evaluate
\* f"{logic}([score {operator} {thresh} for score in {scores}])": the text
\* handed to eval(), slot by slot.  logic and operator go in as they are,
\* thresh and the scores as their decimal text.
FString(logic, operator, thresh, score_list) ==
    [logic |-> logic, operator |-> operator, thresh |-> IntRepr(thresh),
     scores |-> [i \in 1..Len(score_list) |-> IntRepr(score_list[i])]]

\* Mutant of py_element: ">=" compares as ">".
py_element_strict(operator, score, thresh) ==
    CASE operator = ">" -> score > thresh
      [] operator = ">=" -> score > thresh
      [] operator = "<" -> score < thresh
      [] operator = "<=" -> score <= thresh
      [] operator = "==" -> score = thresh
      [] operator = "!=" -> score # thresh
      [] operator = "+" -> score + thresh # 0
      [] OTHER -> FALSE

\* Whether `score <operator> thresh` is true for Python (the truth value of
\* what the expression yields).  "+" is the sum, true when not 0.  SysOp is
\* `score >= 0 and os.system('id') and 0 >= thresh`: os.system runs when
\* score >= 0 and returns 0, so the expression is false either way.
py_element(operator, score, thresh) ==
    CASE operator = ">" -> score > thresh
      [] operator = ">=" -> score >= thresh
      [] operator = "<" -> score < thresh
      [] operator = "<=" -> score <= thresh
      [] operator = "==" -> score = thresh
      [] operator = "!=" -> score # thresh
      [] operator = "+" -> score + thresh # 0
      [] OTHER -> FALSE

\* Mutant of py_call: the two reductions are swapped.
py_call_swapped(logic, truths) ==
    IF logic = "any" THEN \A i \in 1..Len(truths) : truths[i]
    ELSE \E i \in 1..Len(truths) : truths[i]

\* The callee applied to the list: any() for "any"; all() for "all" and for
\* SysLogic, whose `or` falls through to all().
py_call(logic, truths) ==
    IF logic = "any" THEN \E i \in 1..Len(truths) : truths[i]
    ELSE \A i \in 1..Len(truths) : truths[i]

\* eval(text): the text is compiled ("=>" is no Python operator:
\* SyntaxError), the callee is looked up ("xor" is no name: NameError), the
\* list comprehension is evaluated and the callee applied to it.  SysLogic is
\* `os.system('id') or all`: os.system runs, returns 0, and all() decides.
py_eval(text) ==
    LET thresh == ParseInt(text.thresh)
        n == Len(text.scores)
        score(i) == ParseInt(text.scores[i])
        elem(i) == py_element(text.operator, score(i), thresh)
        ran == \/ text.logic = SysLogic
               \/ text.operator = SysOp /\ \E i \in 1..n : score(i) >= 0
    IN IF text.operator = "=>" THEN Raise("SyntaxError")
       ELSE IF text.logic = "xor" THEN Raise("NameError")
       ELSE IF text.logic = "len" THEN [ReturnInt(n) EXCEPT !.ran = ran]
       ELSE [ReturnBool(py_call(text.logic, [i \in 1..n |-> elem(i)]))
               EXCEPT !.ran = ran]

\* scores = self.scores(); return eval(f"...")
evaluate(tbl, obj, thresh, logic, operator) ==
    LET r == scores(tbl, obj)
    IN IF r.out.kind = "raise" THEN r
       ELSE Run(py_eval(FString(logic, operator, thresh, r.out.list)), r.calls)

\* ------------------------------------------------------------- constructors
\* BaseLogicalOperator.__init__(self): it takes no argument besides self and
\* assigns nothing; called with more, Python raises TypeError.
BaseLogicalOperator_init(obj, args) ==
    IF Len(args) > 0 THEN [ok |-> FALSE, obj |-> obj]
    ELSE [ok |-> TRUE, obj |-> obj]

\* LogicalFuzzy.__init__(self, string, *references, method = "partial_ratio"):
\* super().__init__(string, *references), then self.method = method.
LogicalFuzzy_init(string, references, method) ==
    LET new == [NoInstance EXCEPT !.cls = "LogicalFuzzy"]
        base == BaseLogicalOperator_init(new, <<string>> \o references)
    IN IF ~ base.ok THEN [out |-> Raise("TypeError"), obj |-> NoInstance]
       ELSE [out |-> Outcome("return", "instance"),
             obj |-> [base.obj EXCEPT !.method = method,
                                      !.has = @ \cup {"method"}]]

\* LogicalRegexp.__init__(self, string, *references):
\* super().__init__(string, *references).
LogicalRegexp_init(string, references) ==
    LET new == [NoInstance EXCEPT !.cls = "LogicalRegexp"]
        base == BaseLogicalOperator_init(new, <<string>> \o references)
    IN IF ~ base.ok THEN [out |-> Raise("TypeError"), obj |-> NoInstance]
       ELSE [out |-> Outcome("return", "instance"), obj |-> base.obj]

\* The default of the keyword argument `method`.
DefaultMethod == "partial_ratio"

\* ------------------------------------------------------------------ actions
\* The caller writes LogicalFuzzy(string, *references[, method = m]).
NewLogicalFuzzy ==
    \E string \in Subjects, references \in SeqsUpTo(Words, MaxRefs),
       given \in Methods \cup {"<default>"} :
        LET method == IF given = "<default>" THEN DefaultMethod ELSE given
            r == LogicalFuzzy_init(string, references, method)
        IN /\ self' = r.obj
           /\ out' = r.out
           /\ call' = [NoCall EXCEPT !.op = "LogicalFuzzy", !.string = string,
                                     !.references = references,
                                     !.method = given]
           /\ UNCHANGED <<memo, calls, first>>

\* The caller writes LogicalRegexp(string, *references).
NewLogicalRegexp ==
    \E string \in Subjects, references \in SeqsUpTo(Patterns, MaxRefs) :
        LET r == LogicalRegexp_init(string, references)
        IN /\ self' = r.obj
           /\ out' = r.out
           /\ call' = [NoCall EXCEPT !.op = "LogicalRegexp",
                                     !.string = string,
                                     !.references = references]
           /\ UNCHANGED <<memo, calls, first>>

\* The calls of fuzzywuzzy a method of obj can make.
Needed(obj) ==
    IF obj.cls \in {"LogicalFuzzy", "fuzzy.LogicalFuzzy"}
       /\ wrapper_get(obj.method) # "None"
    THEN { LET args == fuzzy_score_args(obj.string, obj.references[i])
           IN LibCall(wrapper_get(obj.method), args.a, args.b) :
           i \in 1..Len(obj.references) }
    ELSE {}

\* The tables that extend tbl by an answer to each call of `keys` it lacks.
Extensions(tbl, keys) ==
    LET new == { k \in keys : ~ Sampled(tbl, k.fn, k.a, k.b) }
    IN { tbl \cup { [fn |-> k.fn, a |-> k.a, b |-> k.b, v |-> f[k]] : k \in new } :
         f \in [new -> PrimOutcomes] }

\* The entries of tbl for the calls made.
Called(tbl, cs) ==
    { e \in tbl : \E i \in 1..Len(cs) : cs[i] = LibCall(e.fn, e.a, e.b) }

\* Mutant of ScoresCall: the references are consumed by the iteration (an
\* iterator kept in self.references is empty after the first scores()).
ScoresCall_consuming ==
    \E tbl \in Extensions(memo, Needed(self)) :
        LET r == scores(tbl, self)
        IN /\ out' = r.out
           /\ calls' = r.calls
           /\ memo' = memo \cup Called(tbl, r.calls)
           /\ call' = [NoCall EXCEPT !.op = "scores"]
           /\ first' = IF first.kind = "none" THEN r.out ELSE first
           /\ self' = [self EXCEPT !.references = <<>>]

\* self.scores() runs: the fuzzywuzzy calls not made before get an answer,
\* the outcome goes to the caller, no attribute of self is assigned.
ScoresCall ==
    \E tbl \in Extensions(memo, Needed(self)) :
        LET r == scores(tbl, self)
        IN /\ out' = r.out
           /\ calls' = r.calls
           /\ memo' = memo \cup Called(tbl, r.calls)
           /\ call' = [NoCall EXCEPT !.op = "scores"]
           /\ first' = IF first.kind = "none" THEN r.out ELSE first
           /\ UNCHANGED self

\* self.evaluate(thresh, logic, operator) runs.
EvaluateCall(thresh, logic, operator) ==
    \E tbl \in Extensions(memo, Needed(self)) :
        LET r == evaluate(tbl, self, thresh, logic, operator)
        IN /\ out' = r.out
           /\ calls' = r.calls
           /\ memo' = memo \cup Called(tbl, r.calls)
           /\ call' = [NoCall EXCEPT !.op = "evaluate", !.thresh = thresh,
                                     !.logic = logic, !.operator = operator]
           /\ UNCHANGED <<self, first>>

\* The caller calls self.scores(): the one call made on the receiver.
Scores ==
    /\ self.cls # "none"
    /\ call.op = "none"
    /\ ScoresCall

\* The caller calls self.evaluate(thresh, logic, operator): the one call made
\* on the receiver.
Evaluate ==
    /\ self.cls # "none"
    /\ call.op = "none"
    /\ \E thresh \in Thresholds, logic \in Logics, operator \in Operators :
         EvaluateCall(thresh, logic, operator)

\* ----------------------------------------------------------- specifications
Receivers ==
    { Instance("LogicalFuzzy", s, r, m) :
        s \in Subjects, r \in SeqsUpTo(Words, MaxRefs), m \in Methods }
    \cup
    { [Instance("LogicalRegexp", s, r, "") EXCEPT !.has = {"string", "references"}] :
        s \in Subjects, r \in SeqsUpTo(Patterns, MaxRefs) }

\* Methods on a receiver.
Init ==
    /\ self \in Receivers
    /\ memo = {}
    /\ call = NoCall
    /\ calls = <<>>
    /\ out = NoOutcome
    /\ first = NoOutcome

Next == Scores \/ Evaluate

Spec == Init /\ [][Next]_vars

\* Constructors: no object yet.
InitNew ==
    /\ self = NoInstance
    /\ memo = {}
    /\ call = NoCall
    /\ calls = <<>>
    /\ out = NoOutcome
    /\ first = NoOutcome

NextNew == NewLogicalFuzzy \/ NewLogicalRegexp

SpecNew == InitNew /\ [][NextNew]_vars

\* Any sequence of calls on one receiver.  evaluate() is called with one
\* threshold, a logic that is a name and one that is not, a comparison and
\* an operator text that runs os.system.
ScoresAgain ==
    /\ self.cls # "none"
    /\ ScoresCall

EvaluateAgain ==
    /\ self.cls # "none"
    /\ \E thresh \in {50}, logic \in {"all", "xor"}, operator \in {">=", SysOp} :
         EvaluateCall(thresh, logic, operator)

NextRepeat == ScoresAgain \/ EvaluateAgain

SpecRepeat == Init /\ [][NextRepeat]_vars

\* ------------------------------------------ nlpurify.fuzzy.LogicalFuzzy
\* The legacy class: __init__ assigns string, references and method.
legacy_init(string, references, method) ==
    [out |-> Outcome("return", "instance"),
     obj |-> Instance("fuzzy.LogicalFuzzy", string, references, method)]

\* fuzzy_scores(): [fuzzy_score(self.string, reference, self.method)
\*                  for reference in self.references]
legacy_fuzzy_scores(tbl, obj) == LogicalFuzzy_loop(tbl, obj, 1, <<>>, <<>>)

\* Whether obj.<name> resolves: an attribute assigned by __init__ or a
\* method the class defines.
legacy_hasattr(obj, name) ==
    name \in obj.has \cup {"__init__", "fuzzy_scores", "evaluate"}

\* evaluate(): scores = self._fuzzy_score_(), then the same eval() as the
\* base class.  The class defines no _fuzzy_score_: AttributeError.
legacy_evaluate(tbl, obj, thresh, logic, operator) ==
    IF ~ legacy_hasattr(obj, "_fuzzy_score_")
    THEN Run(Raise("AttributeError"), <<>>)
    ELSE LET r == legacy_fuzzy_scores(tbl, obj)
         IN IF r.out.kind = "raise" THEN r
            ELSE Run(py_eval(FString(logic, operator, thresh, r.out.list)),
                     r.calls)

\* The caller writes nlpurify.fuzzy.LogicalFuzzy(string, *references[, method = m]).
NewLegacy ==
    /\ self.cls = "none"
    /\ \E string \in Subjects, references \in SeqsUpTo(Words, MaxRefs),
          given \in Methods \cup {"<default>"} :
        LET method == IF given = "<default>" THEN DefaultMethod ELSE given
            r == legacy_init(string, references, method)
        IN /\ self' = r.obj
           /\ out' = r.out
           /\ call' = [NoCall EXCEPT !.op = "fuzzy.LogicalFuzzy",
                                     !.string = string,
                                     !.references = references,
                                     !.method = given]
           /\ UNCHANGED <<memo, calls, first>>

\* The caller calls fuzzy_scores() on the object just constructed.
LegacyFuzzyScores ==
    /\ call.op = "fuzzy.LogicalFuzzy"
    /\ \E tbl \in Extensions(memo, Needed(self)) :
        LET r == legacy_fuzzy_scores(tbl, self)
        IN /\ out' = r.out
           /\ calls' = r.calls
           /\ memo' = memo \cup Called(tbl, r.calls)
           /\ call' = [NoCall EXCEPT !.op = "fuzzy_scores"]
           /\ first' = r.out
           /\ UNCHANGED self

\* The caller calls evaluate(thresh, logic, operator) on the object just
\* constructed.
LegacyEvaluate ==
    /\ call.op = "fuzzy.LogicalFuzzy"
    /\ \E thresh \in Thresholds, logic \in Logics, operator \in Operators :
       \E tbl \in Extensions(memo, Needed(self)) :
        LET r == legacy_evaluate(tbl, self, thresh, logic, operator)
        IN /\ out' = r.out
           /\ calls' = r.calls
           /\ memo' = memo \cup Called(tbl, r.calls)
           /\ call' = [NoCall EXCEPT !.op = "evaluate", !.thresh = thresh,
                                     !.logic = logic, !.operator = operator]
           /\ UNCHANGED <<self, first>>

NextLegacy == NewLegacy \/ LegacyFuzzyScores \/ LegacyEvaluate

SpecLegacy == InitNew /\ [][NextLegacy]_vars

\* The set of the entries of a list.
Range(l) == {l[i] : i \in 1..Len(l)}

\* ------------------------------------------------------- python str / re
\* Texts are sequences of one-character strings.  The characters that
\* str.strip(), str.split() and the regex class \s treat as white space:
str_isspace(c) == c \in {" ", "\t", "\n"}

str_isalpha_char(c) == c \in {"a", "b", "A", "B"}

str_isalnum_char(c) == str_isalpha_char(c) \/ c \in {"9"}

\* os.linesep of the platform the package runs on (POSIX).
os_linesep == <<"\n">>

RECURSIVE str_lstrip(_)
str_lstrip(s) ==
    IF s = <<>> THEN s
    ELSE IF str_isspace(Head(s)) THEN str_lstrip(Tail(s)) ELSE s

RECURSIVE str_rstrip(_)
str_rstrip(s) ==
    IF s = <<>> THEN s
    ELSE IF str_isspace(s[Len(s)]) THEN str_rstrip(SubSeq(s, 1, Len(s) - 1))
         ELSE s

str_strip(s) == str_rstrip(str_lstrip(s))

\* s.replace(old, new), old not empty: leftmost, non-overlapping.
RECURSIVE str_replace(_, _, _)
str_replace(s, old, new) ==
    IF Len(s) < Len(old) THEN s
    ELSE IF SubSeq(s, 1, Len(old)) = old
         THEN new \o str_replace(SubSeq(s, Len(old) + 1, Len(s)), old, new)
         ELSE <<Head(s)>> \o str_replace(Tail(s), old, new)

str_lower_char(c) == IF c = "A" THEN "a" ELSE IF c = "B" THEN "b" ELSE c

str_upper_char(c) == IF c = "a" THEN "A" ELSE IF c = "b" THEN "B" ELSE c

str_lower(s) == [i \in 1..Len(s) |-> str_lower_char(s[i])]

str_upper(s) == [i \in 1..Len(s) |-> str_upper_char(s[i])]

\* s.isalpha() / s.isalnum(): at least one character, all of the class.
str_isalpha(s) == s # <<>> /\ \A i \in 1..Len(s) : str_isalpha_char(s[i])

str_isalnum(s) == s # <<>> /\ \A i \in 1..Len(s) : str_isalnum_char(s[i])

\* s.split(sep) with a one-character separator: empty pieces are kept.
RECURSIVE str_split_from(_, _, _)
str_split_from(s, sep, piece) ==
    IF s = <<>> THEN <<piece>>
    ELSE IF Head(s) = sep
         THEN <<piece>> \o str_split_from(Tail(s), sep, <<>>)
         ELSE str_split_from(Tail(s), sep, Append(piece, Head(s)))

str_split(s, sep) == str_split_from(s, sep, <<>>)

\* s.split(): separated by runs of white space, no empty pieces.
RECURSIVE str_words_from(_, _)
str_words_from(s, piece) ==
    IF s = <<>> THEN (IF piece = <<>> THEN <<>> ELSE <<piece>>)
    ELSE IF str_isspace(Head(s))
         THEN (IF piece = <<>> THEN <<>> ELSE <<piece>>)
              \o str_words_from(Tail(s), <<>>)
         ELSE str_words_from(Tail(s), Append(piece, Head(s)))

str_words(s) == str_words_from(s, <<>>)

\* s.splitlines(): pieces between line breaks, no piece after a final break.
RECURSIVE str_splitlines_from(_, _)
str_splitlines_from(s, piece) ==
    IF s = <<>> THEN (IF piece = <<>> THEN <<>> ELSE <<piece>>)
    ELSE IF Head(s) = "\n"
         THEN <<piece>> \o str_splitlines_from(Tail(s), <<>>)
         ELSE str_splitlines_from(Tail(s), Append(piece, Head(s)))

str_splitlines(s) == str_splitlines_from(s, <<>>)

\* sep.join(pieces)
RECURSIVE str_join(_, _)
str_join(sep, pieces) ==
    IF pieces = <<>> THEN <<>>
    ELSE IF Len(pieces) = 1 THEN pieces[1]
         ELSE pieces[1] \o sep \o str_join(sep, Tail(pieces))

\* re.compile(r"\s+").sub(" ", s)
RECURSIVE re_sub_whitespace(_)
re_sub_whitespace(s) ==
    IF s = <<>> THEN s
    ELSE IF str_isspace(Head(s))
         THEN <<" ">> \o re_sub_whitespace(str_lstrip(s))
         ELSE <<Head(s)>> \o re_sub_whitespace(Tail(s))

\* Length of the run of spaces and tabs s starts with.
RECURSIVE blank_run(_)
blank_run(s) ==
    IF s # <<>> /\ Head(s) \in {" ", "\t"} THEN 1 + blank_run(Tail(s)) ELSE 0

\* re.compile(r"[ \t]{2,}").sub(" ", s)
RECURSIVE re_sub_blanks(_)
re_sub_blanks(s) ==
    IF s = <<>> THEN s
    ELSE IF blank_run(s) >= 2
         THEN <<" ">> \o re_sub_blanks(SubSeq(s, blank_run(s) + 1, Len(s)))
         ELSE <<Head(s)>> \o re_sub_blanks(Tail(s))

\* re.compile(r"\w+").findall(s): the maximal runs of word characters.
RECURSIVE re_findall_words(_, _)
re_findall_words(s, piece) ==
    IF s = <<>> THEN (IF piece = <<>> THEN <<>> ELSE <<piece>>)
    ELSE IF ~ str_isalnum_char(Head(s))
         THEN (IF piece = <<>> THEN <<>> ELSE <<piece>>)
              \o re_findall_words(Tail(s), <<>>)
         ELSE re_findall_words(Tail(s), Append(piece, Head(s)))

\* kwargs.get(name, default) on a dict of keyword arguments.
kwargs_get(kwargs, name, default) ==
    IF name \in DOMAIN kwargs THEN kwargs[name] ELSE default

\* Every dict that passes some of the names, each as True or False.
Kwargs(names) == UNION {[S -> BOOLEAN] : S \in SUBSET names}

\* Outcomes of the text functions.
TextOutcome(kind, type) ==
    [kind |-> kind, type |-> type, str |-> <<>>, list |-> <<>>, exc |-> "none"]

ReturnStr(s) == [TextOutcome("return", "str") EXCEPT !.str = s]

ReturnTokens(l) == [TextOutcome("return", "list") EXCEPT !.list = l]

TextRaise(exc) == [TextOutcome("raise", "none") EXCEPT !.exc = exc]

\* The input text is drawn at the start; nothing has been called yet.
TextInit(alphabet) ==
    /\ self = NoInstance
    /\ memo = {}
    /\ calls = <<>>
    /\ first = NoOutcome
    /\ out = TextOutcome("none", "none")
    /\ \E text \in SeqsUpTo(alphabet, MaxText) :
        call = [op |-> "none", text |-> text, args |-> <<>>]

\* ------------------------------------------------- nlpurify.normalization
\* strip_whitespace whose else-branch looks at lstrip only.
strip_whitespace_lstrip_only(text, kwargs) ==
    LET lstrip == kwargs_get(kwargs, "lstrip", TRUE)
        rstrip == kwargs_get(kwargs, "rstrip", TRUE)
        multiple_whitespace == kwargs_get(kwargs, "multiple_whitespace", TRUE)
        stripped == IF lstrip /\ rstrip THEN str_strip(text)
                    ELSE IF lstrip THEN str_lstrip(text)
                    ELSE text
    IN IF multiple_whitespace THEN re_sub_whitespace(stripped) ELSE stripped

strip_whitespace(text, kwargs) ==
    LET lstrip == kwargs_get(kwargs, "lstrip", TRUE)
        rstrip == kwargs_get(kwargs, "rstrip", TRUE)
        multiple_whitespace == kwargs_get(kwargs, "multiple_whitespace", TRUE)
        stripped == IF lstrip /\ rstrip THEN str_strip(text)
                    ELSE IF lstrip THEN str_lstrip(text)
                    ELSE IF rstrip THEN str_rstrip(text)
                    ELSE text
    IN IF multiple_whitespace THEN re_sub_whitespace(stripped) ELSE stripped

\* normalize without the final lower().
normalize_keep_case(text, strip, kwargs) ==
    LET t1 == IF kwargs_get(kwargs, "strip_line_breaks", TRUE)
              THEN str_replace(text, os_linesep, <<" ">>)
              ELSE text
    IN IF strip THEN strip_whitespace(t1, kwargs) ELSE t1

\* Both conditional statements replace line_break_seperator; the second
\* one is the one strip_tab_space switches.
normalize(text, strip, kwargs) ==
    LET line_break_seperator == os_linesep
        t1 == IF kwargs_get(kwargs, "strip_line_breaks", TRUE)
              THEN str_replace(text, line_break_seperator, <<" ">>)
              ELSE text
        t2 == IF kwargs_get(kwargs, "strip_tab_space", TRUE)
              THEN str_replace(t1, line_break_seperator, <<" ">>)
              ELSE t1
    IN IF strip THEN str_lower(strip_whitespace(t2, kwargs))
       ELSE str_lower(t2)

NormalizationAlphabet == {"a", "B", " ", "\t", "\n"}

InitNormalization == TextInit(NormalizationAlphabet)

\* The caller calls strip_whitespace(text, **kwargs).
StripWhitespace ==
    /\ call.op = "none"
    /\ \E kwargs \in Kwargs({"lstrip", "rstrip", "multiple_whitespace"}) :
        /\ call' = [call EXCEPT !.op = "strip_whitespace",
                                !.args = [kwargs |-> kwargs]]
        /\ out' = ReturnStr(strip_whitespace(call.text, kwargs))
    /\ UNCHANGED <<self, memo, calls, first>>

\* The caller calls normalize(text, strip, **kwargs).
Normalize ==
    /\ call.op = "none"
    /\ \E strip \in BOOLEAN,
          kwargs \in Kwargs({"strip_line_breaks", "strip_tab_space",
                             "multiple_whitespace"}) :
        /\ call' = [call EXCEPT !.op = "normalize",
                                !.args = [strip |-> strip, kwargs |-> kwargs]]
        /\ out' = ReturnStr(normalize(call.text, strip, kwargs))
    /\ UNCHANGED <<self, memo, calls, first>>

NextNormalization == StripWhitespace \/ Normalize

SpecNormalization == InitNormalization /\ [][NextNormalization]_vars

\* ------------------------------------------------------ nlpurify.normalize
_strip_whitespace(text, strip_whitespace_, strip_whitespace_start, strip_whitespace_final) ==
    IF strip_whitespace_ THEN str_strip(text)
    ELSE IF strip_whitespace_start THEN str_lstrip(text)
    ELSE IF strip_whitespace_final THEN str_rstrip(text)
    ELSE text

_replace_double_space(text) == re_sub_whitespace(text)

\* uniform_text_case is "None" when the argument is left out.  Both
\* strip_whitespace and strip_whitespace_inline are read from the key
\* "strip_whitespace".
normalizeText(text, uniform_text_case, replace_double_space, strip_line_breaks, replace_double_line_breaks, kwargs) ==
    LET strip_whitespace_ == kwargs_get(kwargs, "strip_whitespace", TRUE)
        strip_whitespace_inline == kwargs_get(kwargs, "strip_whitespace", TRUE)
        line_break_seperator == os_linesep
        t1 == IF replace_double_space THEN _replace_double_space(text)
              ELSE text
        t2 == IF strip_line_breaks
              THEN str_replace(t1, line_break_seperator, <<" ">>)
              ELSE t1
        t3 == IF replace_double_line_breaks
              THEN str_replace(t2, line_break_seperator \o line_break_seperator,
                               line_break_seperator)
              ELSE t2
        t4 == IF uniform_text_case = "lower" THEN str_lower(t3)
              ELSE IF uniform_text_case = "upper" THEN str_upper(t3)
              ELSE t3
        strip_whitespace_start == kwargs_get(kwargs, "strip_whitespace_start", FALSE)
        strip_whitespace_final == kwargs_get(kwargs, "strip_whitespace_final", FALSE)
        strip_whitespace_inline_start ==
            kwargs_get(kwargs, "strip_whitespace_inline_start", FALSE)
        strip_whitespace_inline_final ==
            kwargs_get(kwargs, "strip_whitespace_inline_final", FALSE)
        t5 == IF strip_whitespace_ \/ strip_whitespace_start
                 \/ strip_whitespace_final
              THEN _strip_whitespace(t4, strip_whitespace_,
                                     strip_whitespace_start,
                                     strip_whitespace_final)
              ELSE t4
        lines == str_splitlines(t5)
        t6 == IF strip_whitespace_inline \/ strip_whitespace_inline_start
                 \/ strip_whitespace_inline_final
              THEN str_join(<<"\n">>,
                     [i \in 1..Len(lines) |->
                        _strip_whitespace(lines[i], strip_whitespace_inline,
                                          strip_whitespace_inline_start,
                                          strip_whitespace_inline_final)])
              ELSE t5
    IN IF uniform_text_case \notin {"lower", "upper", "None"}
       THEN TextRaise("ValueError")
       ELSE ReturnStr(t6)

NormalizeTextAlphabet == {"a", "B", " ", "\n"}

InitNormalizeText == TextInit(NormalizeTextAlphabet)

\* The caller calls normalizeText(text, ...) with some of its arguments.
NormalizeText ==
    /\ call.op = "none"
    /\ \E uniform_text_case \in {"None", "lower", "title"},
          replace_double_space \in BOOLEAN,
          strip_line_breaks \in BOOLEAN,
          replace_double_line_breaks \in BOOLEAN,
          kwargs \in Kwargs({"strip_whitespace", "strip_whitespace_inline",
                             "strip_whitespace_inline_final"}) :
        /\ call' = [call EXCEPT
                      !.op = "normalizeText",
                      !.args = [uniform_text_case |-> uniform_text_case,
                                replace_double_space |-> replace_double_space,
                                strip_line_breaks |-> strip_line_breaks,
                                replace_double_line_breaks |->
                                    replace_double_line_breaks,
                                kwargs |-> kwargs]]
        /\ out' = normalizeText(call.text, uniform_text_case,
                                replace_double_space, strip_line_breaks,
                                replace_double_line_breaks, kwargs)
    /\ UNCHANGED <<self, memo, calls, first>>

NextNormalizeText == NormalizeText

SpecNormalizeText == InitNormalizeText /\ [][NextNormalizeText]_vars

\* ------------------------------------------------- nlpurify.preprocessing
\* A WhiteSpace model built with the given fields; strip_chars and
\* newlinesep keep their defaults (None, os.linesep).
WhiteSpace(strip, lstrip, rstrip, newline, multispace) ==
    [strip |-> strip, lstrip |-> lstrip, rstrip |-> rstrip,
     newline |-> newline, newlinesep |-> os_linesep,
     multispace |-> multispace]

\* text.strip(chars = ...), text.lstrip(chars = ...): the str methods take
\* their argument by position only.
str_strip_keyword(text) == TextRaise("TypeError")

\* The second and third step of apply(), the same in both modules.
WhiteSpace_replace(model, text) ==
    LET t1 == IF model.newline
              THEN str_replace(text, model.newlinesep, <<" ">>)
              ELSE text
    IN IF model.multispace THEN re_sub_blanks(t1) ELSE t1

\* preprocessing/normalization.py: WhiteSpace.apply
WhiteSpace_apply(model, text) ==
    IF model.strip \/ model.lstrip \/ model.rstrip
    THEN str_strip_keyword(text)
    ELSE ReturnStr(WhiteSpace_replace(model, text))

\* preprocessing/normalization_model.py: WhiteSpace.apply
WhiteSpaceModel_apply(model, text) ==
    LET stripped == IF model.strip THEN str_strip(text)
                    ELSE IF model.lstrip THEN str_lstrip(text)
                    ELSE IF model.rstrip THEN str_strip(text)
                    ELSE text
    IN ReturnStr(WhiteSpace_replace(model, stripped))

WhiteSpaceAlphabet == {"a", " ", "\t", "\n"}

InitWhiteSpace == TextInit(WhiteSpaceAlphabet)

\* The caller builds normalization.WhiteSpace(...) and calls apply(text).
WhiteSpaceApply ==
    /\ call.op = "none"
    /\ \E strip \in BOOLEAN, lstrip \in BOOLEAN, rstrip \in BOOLEAN,
          newline \in BOOLEAN, multispace \in BOOLEAN :
        LET model == WhiteSpace(strip, lstrip, rstrip, newline, multispace)
        IN /\ call' = [call EXCEPT !.op = "normalization.WhiteSpace.apply",
                                   !.args = model]
           /\ out' = WhiteSpace_apply(model, call.text)
    /\ UNCHANGED <<self, memo, calls, first>>

\* The caller builds normalization_model.WhiteSpace(...) and calls
\* apply(text).
WhiteSpaceModelApply ==
    /\ call.op = "none"
    /\ \E strip \in BOOLEAN, lstrip \in BOOLEAN, rstrip \in BOOLEAN,
          newline \in BOOLEAN, multispace \in BOOLEAN :
        LET model == WhiteSpace(strip, lstrip, rstrip, newline, multispace)
        IN /\ call' = [call EXCEPT
                         !.op = "normalization_model.WhiteSpace.apply",
                         !.args = model]
           /\ out' = WhiteSpaceModel_apply(model, call.text)
    /\ UNCHANGED <<self, memo, calls, first>>

NextWhiteSpace == WhiteSpaceApply \/ WhiteSpaceModelApply

SpecWhiteSpace == InitWhiteSpace /\ [][NextWhiteSpace]_vars

\* ------------------------------------------ nlpurify.feature.selection.nltk
\* nltk's stopwords.words("english"), as far as it holds words over the
\* letters a and b and the digit 9.
stopwords_words == {<<"a">>}

\* nltk's word_tokenize on a text of letters, digits and white space: the
\* words between the runs of white space.
word_tokenize(text) == str_words(text)

\* [s for s in tokens if keep(s)]
RECURSIVE py_filter(_, _)
py_filter(tokens, kept) ==
    IF tokens = <<>> THEN <<>>
    ELSE (IF Head(tokens) \in kept THEN <<Head(tokens)>> ELSE <<>>)
         \o py_filter(Tail(tokens), kept)

\* The key of the token table that tokenize_text selects.
tokenize_method(regexp, vanilla, retalpha, retalnum) ==
    IF regexp \/ vanilla
    THEN IF regexp THEN "regexp"
         ELSE IF retalpha THEN "vanilla-alnum"
         ELSE IF retalnum THEN "vanilla-alpha"
         ELSE "vanilla-vanilla"
    ELSE "word-tokenize"

tokenize_text(text, regexp, vanilla, kwargs) ==
    LET split_by == kwargs_get(kwargs, "split_by", " ")
        retalpha == kwargs_get(kwargs, "retalpha", TRUE)
        retalnum == kwargs_get(kwargs, "retalnum", TRUE)
        method == tokenize_method(regexp, vanilla, retalpha, retalnum)
        pieces == str_split(text, split_by)
        tokens ==
            [m \in {"regexp", "vanilla-alnum", "vanilla-alpha",
                    "vanilla-vanilla", "word-tokenize"} |->
                CASE m = "regexp" -> re_findall_words(text, <<>>)
                  [] m = "vanilla-alnum" ->
                        py_filter(pieces, {s \in Range(pieces) : str_isalnum(s)})
                  [] m = "vanilla-alpha" ->
                        py_filter(pieces, {s \in Range(pieces) : str_isalpha(s)})
                  [] m = "vanilla-vanilla" -> pieces
                  [] OTHER -> word_tokenize(text)]
    IN IF regexp /\ vanilla THEN TextRaise("ValueError")
       ELSE ReturnTokens(tokens[method])

\* The local name normalize is bound to kwargs.get("normalize", True), a
\* bool, and hides the imported function: when it is true the statement
\* calls the bool.
remove_stopwords(text, rtype, kwargs) ==
    LET tokenize == kwargs_get(kwargs, "tokenize", TRUE)
        normalize_ == kwargs_get(kwargs, "normalize", TRUE)
        tokenized == tokenize_text(text, FALSE, FALSE, kwargs)
        tokens == IF tokenize THEN tokenized.list
                  ELSE [i \in 1..Len(text) |-> <<text[i]>>]
        words == py_filter(tokens, Range(tokens) \ stopwords_words)
    IN IF normalize_ THEN TextRaise("TypeError")
       ELSE IF tokenize /\ tokenized.kind = "raise" THEN tokenized
       ELSE IF rtype \notin {"str", "list"} THEN TextRaise("ValueError")
       ELSE IF rtype = "str" THEN ReturnStr(str_join(<<" ">>, words))
       ELSE ReturnTokens(words)

NltkAlphabet == {"a", "B", "9", " ", "\t"}

InitNltk == TextInit(NltkAlphabet)

\* The caller calls tokenize_text(text, regexp, vanilla, **kwargs).
TokenizeText ==
    /\ call.op = "none"
    /\ \E regexp \in BOOLEAN, vanilla \in BOOLEAN,
          kwargs \in Kwargs({"retalpha", "retalnum"}) :
        /\ call' = [call EXCEPT !.op = "tokenize_text",
                                !.args = [regexp |-> regexp,
                                          vanilla |-> vanilla,
                                          kwargs |-> kwargs]]
        /\ out' = tokenize_text(call.text, regexp, vanilla, kwargs)
    /\ UNCHANGED <<self, memo, calls, first>>

\* The caller calls remove_stopwords(text, rtype = ..., **kwargs); rtype
\* is "str" when it is left out.
RemoveStopwords ==
    /\ call.op = "none"
    /\ \E rtype \in {"str", "list", "tuple"},
          kwargs \in Kwargs({"normalize", "tokenize"}) :
        /\ call' = [call EXCEPT !.op = "remove_stopwords",
                                !.args = [rtype |-> rtype, kwargs |-> kwargs]]
        /\ out' = remove_stopwords(call.text, rtype, kwargs)
    /\ UNCHANGED <<self, memo, calls, first>>

NextNltk == TokenizeText \/ RemoveStopwords

SpecNltk == InitNltk /\ [][NextNltk]_vars

\* ------------------------------------------------------------------- claims
\* Every call of fuzzywuzzy the receiver's scores() can make has its answer
\* in memo: the last call went through all the references.
AllSampled == \A k \in Needed(self) : Sampled(memo, k.fn, k.a, k.b)

\* The receiver with the i-th reference as its only reference.
Single(i) == [self EXCEPT !.references = <<self.references[i]>>]

\* C1: constructing LogicalFuzzy or LogicalRegexp with a subject and N >= 0
\* references succeeds and yields an instance whose subject is the given
\* string and whose references are the given sequence.
C1_ConstructionSucceeds ==
    call.op \in {"LogicalFuzzy", "LogicalRegexp"} =>
        /\ out.kind = "return"
        /\ self.cls = call.op
        /\ {"string", "references"} \subseteq self.has
        /\ self.string = call.string
        /\ self.references = call.references

Holds(op, s, t) ==
    (op = ">" /\ s > t) \/ (op = ">=" /\ s >= t) \/ (op = "<" /\ s < t)
    \/ (op = "<=" /\ s <= t) \/ (op = "==" /\ s = t) \/ (op = "!=" /\ s # t)

InvalidArgument == {"InvalidArgument", "ValueError"}

\* The method names the wrapper knows.
KnownMethods == {"ratio", "partial_ratio", "token_sort_ratio"}

\* C5: evaluate with a logic outside {"all", "any"} fails with
\* InvalidArgument before any call of the similarity primitive or any
\* pattern match is made.
C5_InvalidLogicRejected ==
    (call.op = "evaluate" /\ call.logic \notin {"all", "any"}) =>
        /\ out.kind = "raise"
        /\ out.exc \in InvalidArgument
        /\ calls = <<>>

\* C6: evaluate returns a boolean only for the six comparison operators, for
\* every other operator it fails with InvalidArgument, and no text of an
\* argument is executed as code.
C6_OnlyComparatorsNoCode ==
    call.op = "evaluate" =>
        /\ (out.kind = "return" /\ out.type = "bool") =>
               call.operator \in Comparators
        /\ call.operator \notin Comparators =>
               (out.kind = "raise" /\ out.exc \in InvalidArgument)
        /\ ~ out.ran

\* C7: scores() of a LogicalFuzzy whose method is not one of the three fails
\* with InvalidArgument for every reference sequence, the empty one
\* included, before the similarity primitive is invoked.
C7_UnknownMethodRejected ==
    (/\ call.op = "scores"
     /\ self.cls = "LogicalFuzzy"
     /\ self.method \notin KnownMethods) =>
        /\ out.kind = "raise"
        /\ out.exc \in InvalidArgument
        /\ calls = <<>>

MatchesWhole(p, w) ==
    /\ Len(w) = Len(p)
    /\ \A j \in 1..Len(p) : p[j] = "." \/ p[j] = w[j]

\* Pattern p matches some substring of s, the empty one included.
MatchesSomewhere(p, s) ==
    \E k \in 0..Len(s) : \E e \in k..Len(s) : MatchesWhole(p, SubSeq(s, k + 1, e))

C10_PatternErrorNamesIndex ==
    (/\ self.cls = "LogicalRegexp"
     /\ call.op = "scores"
     /\ \E i \in 1..Len(self.references) : re_malformed(self.references[i])) =>
        LET bad == CHOOSE i \in 1..Len(self.references) :
                       /\ re_malformed(self.references[i])
                       /\ \A j \in 1..(i - 1) : ~ re_malformed(self.references[j])
        IN /\ out.kind = "raise"
           /\ out.exc \in {"PatternSyntaxError", "re.error"}
           /\ out.pattern = self.references[bad]
           /\ "index" \in out.names

\* Scoring fails at some reference of the receiver: a malformed pattern, a
\* method the wrapper does not know met by a reference, or a call of the
\* similarity primitive that raised.
ScoringFails ==
    IF self.cls = "LogicalRegexp"
    THEN \E i \in 1..Len(self.references) : re_malformed(self.references[i])
    ELSE IF self.method \notin KnownMethods THEN Len(self.references) > 0
    ELSE \E e \in memo : PrimRaises(e.v)

PrimitiveNamed(method) ==
    IF method = "ratio" THEN "fuzz.ratio"
    ELSE IF method = "partial_ratio" THEN "fuzz.partial_ratio"
    ELSE "fuzz.token_sort_ratio"

\* C13, second half: for a method among the three, every call scores() makes
\* is a call of the similarity primitive of that name, one per reference.
C13_SamePrimitive ==
    (/\ call.op = "scores"
     /\ self.cls = "LogicalFuzzy"
     /\ self.method \in KnownMethods) =>
        /\ \A k \in 1..Len(calls) : calls[k].fn = PrimitiveNamed(self.method)
        /\ out.kind = "return" => Len(calls) = Len(self.references)

\* C13: a LogicalFuzzy constructed without a method uses partial_ratio, and
\* for each of the three method names scores() obtains every score from the
\* similarity primitive of that name and from no other.
C13_DefaultAndSamePrimitive ==
    /\ (call.op = "LogicalFuzzy" /\ call.method = "<default>") =>
           /\ out.kind = "return"
           /\ self.cls = "LogicalFuzzy"
           /\ "method" \in self.has
           /\ self.method = "partial_ratio"
    /\ C13_SamePrimitive

\* C14: evaluate(thresh, logic, operator) of the legacy
\* nlpurify.fuzzy.LogicalFuzzy returns the all/any reduction of comparing
\* each entry of fuzzy_scores() with thresh under operator.
C14_LegacyEvaluateReduces ==
    (/\ self.cls = "fuzzy.LogicalFuzzy"
     /\ call.op = "evaluate"
     /\ call.logic \in {"all", "any"}
     /\ call.operator \in Comparators
     /\ self.method \in KnownMethods) =>
        /\ out.kind = "return"
        /\ out.type = "bool"
        /\ AllSampled
        /\ LET vec == legacy_fuzzy_scores(memo, self).out.list
           IN out.bool =
                IF call.logic = "all"
                THEN \A i \in 1..Len(vec) : Holds(call.operator, vec[i], call.thresh)
                ELSE \E i \in 1..Len(vec) : Holds(call.operator, vec[i], call.thresh)

\* C20: normalize with strip_tab_space = True (the default) removes the
\* tab characters of the text, also when multiple_whitespace = False is
\* passed.
C20_TabsRemoved ==
    (/\ call.op = "normalize"
     /\ kwargs_get(call.args.kwargs, "strip_tab_space", TRUE)) =>
        /\ out.kind = "return"
        /\ \A i \in 1..Len(out.str) : out.str[i] # "\t"

\* A text none of whose lines starts or ends with white space.
LinesStripped(s) ==
    \A i \in 1..Len(str_splitlines(s)) :
        str_strip(str_splitlines(s)[i]) = str_splitlines(s)[i]

\* C18: normalizeText strips the leading and trailing white space of
\* each line whenever strip_whitespace_inline is True (its default),
\* whatever is passed for strip_whitespace.
C18_InlineStripIndependent ==
    (/\ call.op = "normalizeText"
     /\ out.kind = "return"
     /\ kwargs_get(call.args.kwargs, "strip_whitespace_inline", TRUE)) =>
        LinesStripped(out.str)

\* C19: normalizeText with replace_double_line_breaks = True,
\* strip_line_breaks = False and every other argument left at its default
\* keeps single line breaks, so a text that has several lines once its
\* ends are stripped comes back with several lines.
C19_MultiLineStays ==
    (/\ call.op = "normalizeText"
     /\ call.args.replace_double_line_breaks
     /\ ~ call.args.strip_line_breaks
     /\ call.args.replace_double_space
     /\ call.args.uniform_text_case = "None"
     /\ DOMAIN call.args.kwargs = {}
     /\ Len(str_splitlines(str_strip(call.text))) > 1) =>
        /\ out.kind = "return"
        /\ Len(str_splitlines(out.str)) > 1

\* The text neither starts nor ends with white space, holds no line
\* separator and no run of two or more spaces or tabs.
WhiteSpaceNormal(s) ==
    /\ str_strip(s) = s
    /\ \A i \in 1..Len(s) : s[i] # "\n"
    /\ \A i \in 1..Len(s) : blank_run(SubSeq(s, i, Len(s))) < 2

DefaultWhiteSpace == WhiteSpace(TRUE, TRUE, TRUE, TRUE, TRUE)

\* C16: WhiteSpace().apply(text) with default settings returns, for every
\* text, a string without leading or trailing white space, with every
\* line separator replaced by a space and every run of two or more spaces
\* or tabs collapsed to one space.
C16_WhiteSpaceDefault ==
    (/\ call.op \in {"normalization.WhiteSpace.apply",
                     "normalization_model.WhiteSpace.apply"}
     /\ call.args = DefaultWhiteSpace) =>
        /\ out.kind = "return"
        /\ WhiteSpaceNormal(out.str)
        /\ out.str = re_sub_blanks(str_replace(str_strip(call.text),
                                               os_linesep, <<" ">>))

\* The part of C16 that the code keeps: the apply() of
\* normalization_model.WhiteSpace.
C16_ModelVariantDefault ==
    (/\ call.op = "normalization_model.WhiteSpace.apply"
     /\ call.args = DefaultWhiteSpace) =>
        /\ out.kind = "return"
        /\ WhiteSpaceNormal(out.str)

\* C15: remove_stopwords(text) with its default keyword arguments
\* normalizes the text and returns the tokens of the normalized text that
\* are not stop words, joined by single spaces.
C15_RemoveStopwordsDefault ==
    (/\ call.op = "remove_stopwords"
     /\ call.args.rtype = "str"
     /\ DOMAIN call.args.kwargs = {}) =>
        /\ out.kind = "return"
        /\ LET tokens == word_tokenize(normalize(call.text, TRUE, <<>>))
           IN out.str = str_join(<<" ">>,
                          py_filter(tokens, Range(tokens) \ stopwords_words))

\* C17: tokenize_text with vanilla = True keeps only the purely
\* alphabetic pieces when retalpha is True (whatever retalnum is), and
\* only the alphanumeric pieces, "987" among them, when retalpha is False
\* and retalnum is True.
C17_VanillaKeeps ==
    (/\ call.op = "tokenize_text"
     /\ call.args.vanilla
     /\ ~ call.args.regexp) =>
        LET pieces == str_split(call.text, " ")
            retalpha == kwargs_get(call.args.kwargs, "retalpha", TRUE)
            retalnum == kwargs_get(call.args.kwargs, "retalnum", TRUE)
        IN /\ out.kind = "return"
           /\ retalpha =>
                out.list = py_filter(pieces,
                             {s \in Range(pieces) : str_isalpha(s)})
           /\ (~ retalpha /\ retalnum) =>
                out.list = py_filter(pieces,
                             {s \in Range(pieces) : str_isalnum(s)})

\* A normalize call whose arguments all have their default values.
NormalizeDefault ==
    /\ call.op = "normalize"
    /\ call.args.strip
    /\ \A name \in DOMAIN call.args.kwargs : call.args.kwargs[name]

\* C21: normalize(text) with default arguments returns, for every text, a
\* lower-case string that neither starts nor ends with white space, holds
\* no run of two or more white-space characters and no line break.
C21_NormalizeDefault ==
    NormalizeDefault =>
        /\ out.kind = "return"
        /\ \A i \in 1..Len(out.str) : out.str[i] = str_lower_char(out.str[i])
        /\ str_strip(out.str) = out.str
        /\ \A i \in 1..(Len(out.str) - 1) :
              ~ (str_isspace(out.str[i]) /\ str_isspace(out.str[i + 1]))
        /\ \A i \in 1..Len(out.str) : out.str[i] # "\n"

\* A default call on a text with an upper-case letter, a line break and a
\* run of two white-space characters.
C21_Witness ==
    /\ NormalizeDefault
    /\ DOMAIN call.args.kwargs = {}
    /\ call.text = <<"B", "\n", "\t", "a">>
    /\ out.kind = "return"
    /\ out.str = <<"b", " ", "a">>

StartsWithSpace(s) == s # <<>> /\ str_isspace(s[1])

EndsWithSpace(s) == s # <<>> /\ str_isspace(s[Len(s)])

\* The text holds a character that is not white space, so that its leading
\* and its trailing white space are different characters.
HasContent(s) == \E i \in 1..Len(s) : ~ str_isspace(s[i])

====
